---- MODULE Spec2Model ----
(***************************************************************************)
(* The PowerToys updater (src/Update/PowerToys.Update.cpp): the two-stage  *)
(* update protocol around the persisted UpdateState record and the         *)
(* pending-updates directory.  Each invocation of the executable is a      *)
(* process; processes share only the record and the directory.             *)
(***************************************************************************)
EXTENDS Integers, Sequences, FiniteSets, TLC

\* ------------------------------------------------------------------ bounds
\* The clock (timeutil::now()) reads 1 at the start and never more than MaxNow.
MaxNow == 2
\* Concurrent or successive invocations of the updater executable.
Procs == {1, 2}

\* std::optional: the empty sequence, or a sequence of one value.
nullopt == <<>>
Some(x) == <<x>>

\* ------------------------------------------------------- strings and paths
\* Wide strings are sequences of characters, so that towlower and ends_with
\* are computed and not assumed.
towlower(c) ==
    CASE c = "A" -> "a"
      [] c = "C" -> "c"
      [] c = "E" -> "e"
      [] c = "I" -> "i"
      [] c = "M" -> "m"
      [] c = "S" -> "s"
      [] c = "X" -> "x"
      [] OTHER -> c

\* std::transform(begin, end, begin, ::towlower)
ToLower(s) == [i \in 1..Len(s) |-> towlower(s[i])]

DotMsi == <<".", "m", "s", "i">>

\* std::wstring::ends_with
ends_with(s, suffix) ==
    /\ Len(s) >= Len(suffix)
    /\ SubSeq(s, Len(s) - Len(suffix) + 1, Len(s)) = suffix

\* Installer filenames that a release can carry and that the pending-updates
\* directory can hold.
SetupMSI == <<"A", ".", "M", "S", "I">>
SetupExe == <<"b", ".", "e", "x", "e">>
Names == {SetupMSI, SetupExe}

PendingDir == <<"C", "/">>

\* get_pending_updates_path() / filename
get_pending_updates_path(filename) == PendingDir \o filename

\* Artifact paths a Stage-2 command line can carry: the pending artifacts, a
\* lower-case package, and a name that ends in "msi" without the dot.
StagePaths ==
    {get_pending_updates_path(n) : n \in Names}
        \cup {<<"c", ".", "m", "s", "i">>, <<"m", "s", "i">>}

\* ------------------------------------------------------- persisted record
upToDate == "upToDate"
errorDownloading == "errorDownloading"
readyToDownload == "readyToDownload"
readyToInstall == "readyToInstall"
\* A stored value outside the enumeration (a corrupted record).
invalidState == "invalid"

States == {upToDate, errorDownloading, readyToDownload, readyToInstall, invalidState}

\* A value-initialised UpdateState (state = {}): no date, an empty filename.
DefaultUpdateState ==
    [state |-> readyToDownload,
     githubUpdateLastCheckedDate |-> nullopt,
     downloadedInstallerFilename |-> <<>>]

\* No record has been written yet.
NoRecord ==
    [state |-> "absent",
     githubUpdateLastCheckedDate |-> nullopt,
     downloadedInstallerFilename |-> <<>>]

\* UpdateState::read(): the record, or the default when there is none.
UpdateState_read(rec) == IF rec = NoRecord THEN DefaultUpdateState ELSE rec

\* The records an earlier check of the application can have left behind: none,
\* or one dated 0 (before the clock of this model starts) that names an
\* installer exactly when it is readyToInstall.
PriorRecords ==
    {NoRecord}
      \cup {[state |-> s, githubUpdateLastCheckedDate |-> Some(0),
             downloadedInstallerFilename |-> <<>>] : s \in States \ {readyToInstall}}
      \cup {[state |-> readyToInstall, githubUpdateLastCheckedDate |-> Some(0),
             downloadedInstallerFilename |-> f] : f \in Names}

\* --------------------------------------------------------- command lines
UPDATE_NOW_LAUNCH_STAGE1 == "-update_now"
UPDATE_NOW_LAUNCH_STAGE2 == "-update_now_stage_2"
Exe == "PowerToys.Update.exe"

\* CommandLineToArgvW(GetCommandLineW(), &nArgs): args[1] here is args[0] there.
CmdLines ==
    {<<Exe>>, <<Exe, "-bogus">>, <<Exe, UPDATE_NOW_LAUNCH_STAGE1>>,
     <<Exe, UPDATE_NOW_LAUNCH_STAGE2>>}
        \cup {<<Exe, UPDATE_NOW_LAUNCH_STAGE2, path>> : path \in StagePaths}

\* -------------------------------------------------------- external results
NoInfo == [tag |-> "unset"]
QueryFailed == [tag |-> "QueryFailed"]
UpToDate == [tag |-> "UpToDate"]
NewVersionAvailable(f) == [tag |-> "NewVersionAvailable", installer_filename |-> f]

\* get_github_version_info_async().get()
VersionQueryResults == {QueryFailed, UpToDate} \cup {NewVersionAvailable(f) : f \in Names}

ERROR_SUCCESS == 0
STILL_ACTIVE == 259

\* What the installation primitives can answer.
\*  msi: MsiInstallProductW's return code.
\*  exe: ShellExecuteExW failed; or it succeeded and the process exited with a
\*       code within the wait; or the wait timed out (the process is still
\*       active); or ShellExecuteExW succeeded without a process handle.
NoOutcome == [kind |-> "unset"]
MsiOutcomes == {[kind |-> "msi", code |-> c] : c \in {ERROR_SUCCESS, 1603}}
ExeOutcomes ==
    {[kind |-> "exe", launched |-> FALSE, handle |-> FALSE, exited |-> FALSE, code |-> 0]}
      \cup {[kind |-> "exe", launched |-> TRUE, handle |-> TRUE, exited |-> TRUE, code |-> c] :
              c \in {0, 1}}
      \cup {[kind |-> "exe", launched |-> TRUE, handle |-> TRUE, exited |-> FALSE, code |-> 0]}
      \cup {[kind |-> "exe", launched |-> TRUE, handle |-> FALSE, exited |-> FALSE, code |-> 0]}

\* ------------------------------------------------------------------ state
VARIABLES
    record,      \* the persisted UpdateState record (or NoRecord)
    files,       \* filenames present in the pending-updates directory
    now,         \* the latest reading of timeutil::now()
    pc,          \* where each invocation stands
    state,       \* ObtainInstaller's local `state` (read at its start)
    info,        \* ObtainInstaller's new_version_info
    isUpToDate,  \* WinMain's isUpToDate, set by ObtainInstaller
    installer,   \* the optional path ObtainInstaller returned
    arg,         \* args[2] of a Stage-2 process
    outcome,     \* what the installation primitive answered in Stage 2
    exits,       \* exit codes of the processes of each invocation, in order
    trace,       \* history: the side effects of each invocation, in order
    stored       \* history: the records each invocation stored, with the clock

vars == <<record, files, now, pc, state, info, isUpToDate, installer, arg,
          outcome, exits, trace, stored>>

locals == <<state, info, isUpToDate, installer, arg, outcome>>

Count(seq, e) == Cardinality({i \in 1..Len(seq) : seq[i] = e})

Goto(p, label) == pc' = [pc EXCEPT ![p] = label]
Did(p, events) == trace' = [trace EXCEPT ![p] = trace[p] \o events]

Init ==
    /\ record \in PriorRecords
    /\ files \in SUBSET Names
    /\ now = 1
    /\ pc = [p \in Procs |-> "idle"]
    /\ state = [p \in Procs |-> DefaultUpdateState]
    /\ info = [p \in Procs |-> NoInfo]
    /\ isUpToDate = [p \in Procs |-> FALSE]
    /\ installer = [p \in Procs |-> nullopt]
    /\ arg = [p \in Procs |-> <<>>]
    /\ outcome = [p \in Procs |-> NoOutcome]
    /\ exits = [p \in Procs |-> <<>>]
    /\ trace = [p \in Procs |-> <<>>]
    /\ stored = [p \in Procs |-> <<>>]

\* timeutil::now(): the readings a store can get, none before the latest one.
timeutil_now == now..MaxNow

Returns(p, code) == exits' = [exits EXCEPT ![p] = Append(exits[p], code)]

\* ---------------------------------------------------- WinMain, command line
\* nArgs < 2: the error is logged (before Logger::init) and 1 is returned.
WinMain_NoArguments(p) ==
    /\ pc[p] = "idle"
    /\ \E args \in CmdLines :
         /\ Len(args) < 2
         /\ Did(p, <<"no_arguments", "log_error_before_init">>)
         /\ Returns(p, 1)
         /\ Goto(p, "done")
    /\ UNCHANGED <<record, files, now, locals, stored>>

\* The action is neither Stage 1 nor Stage 2.
WinMain_InvalidAction(p) ==
    /\ pc[p] = "idle"
    /\ \E args \in CmdLines :
         /\ Len(args) >= 2
         /\ args[2] \notin {UPDATE_NOW_LAUNCH_STAGE1, UPDATE_NOW_LAUNCH_STAGE2}
         /\ Did(p, <<"invalid_action", "log_error">>)
         /\ Returns(p, 1)
         /\ Goto(p, "done")
    /\ UNCHANGED <<record, files, now, locals, stored>>

\* Stage 1 begins: WinMain calls ObtainInstaller, which clears isUpToDate and
\* reads the persisted record into its local `state`.
WinMain_Stage1(p) ==
    /\ pc[p] = "idle"
    /\ \E args \in CmdLines :
         /\ Len(args) >= 2
         /\ args[2] = UPDATE_NOW_LAUNCH_STAGE1
    /\ isUpToDate' = [isUpToDate EXCEPT ![p] = FALSE]
    /\ state' = [state EXCEPT ![p] = UpdateState_read(record)]
    /\ Goto(p, "oi_query")
    /\ UNCHANGED <<record, files, now, info, installer, arg, outcome, exits, trace, stored>>

\* Stage 2 begins from a command line: args[2] is the installer path.
WinMain_Stage2(p) ==
    /\ pc[p] = "idle"
    /\ \E args \in CmdLines :
         /\ Len(args) >= 3
         /\ args[2] = UPDATE_NOW_LAUNCH_STAGE2
         /\ arg' = [arg EXCEPT ![p] = args[3]]
    /\ Goto(p, "s2_install")
    /\ UNCHANGED <<record, files, now, state, info, isUpToDate, installer, outcome,
                   exits, trace, stored>>

\* The exit code of a process that ends on an access violation (0xC0000005 as
\* a 32-bit integer).
STATUS_ACCESS_VIOLATION == -1073741819

\* Stage 2 without a path: nArgs = 2 and args[2] is read all the same.  What
\* is read past the last argument is not defined: the process faults (nothing
\* is logged), or it goes on with whatever string it found.
WinMain_Stage2NoPath(p) ==
    /\ pc[p] = "idle"
    /\ \E args \in CmdLines :
         /\ Len(args) = 2
         /\ args[2] = UPDATE_NOW_LAUNCH_STAGE2
    /\ Did(p, <<"no_path">>)
    /\ \/ /\ Goto(p, "crashed")
          /\ Returns(p, STATUS_ACCESS_VIOLATION)
          /\ UNCHANGED arg
       \/ /\ \E garbage \in StagePaths : arg' = [arg EXCEPT ![p] = garbage]
          /\ Goto(p, "s2_install")
          /\ UNCHANGED exits
    /\ UNCHANGED <<record, files, now, state, info, isUpToDate, installer, outcome, stored>>

\* ------------------------------------------------------- ObtainInstaller
\* `if (!installer || ...)`: without an installer WinMain goes to its store,
\* with one it calls InstallNewVersionStage1.
WinMain_AfterObtain_NoStore(inst) == IF inst = nullopt THEN "done" ELSE "s1_copy"

WinMain_AfterObtain_SkipsCopy(inst) == IF inst = nullopt THEN "s1_store" ELSE "s1_close"

WinMain_AfterObtain(inst) == IF inst = nullopt THEN "s1_store" ELSE "s1_copy"

ObtainInstaller_Return(p, inst) ==
    /\ installer' = [installer EXCEPT ![p] = inst]
    /\ Goto(p, WinMain_AfterObtain(inst))

ObtainInstaller_Query_Stores(p) ==
    /\ pc[p] = "oi_query"
    /\ info' = [info EXCEPT ![p] = QueryFailed]
    /\ Did(p, <<"query", "log_error">>)
    /\ ObtainInstaller_Return(p, nullopt)
    /\ record' = [DefaultUpdateState EXCEPT !.state = errorDownloading]
    /\ UNCHANGED <<files, now, state, isUpToDate, arg, outcome, exits, stored>>

\* The version query and the two early returns.
ObtainInstaller_Query(p) ==
    /\ pc[p] = "oi_query"
    /\ \E new_version_info \in VersionQueryResults :
         /\ info' = [info EXCEPT ![p] = new_version_info]
         /\ CASE new_version_info = QueryFailed ->
                   /\ Did(p, <<"query", "log_error">>)
                   /\ ObtainInstaller_Return(p, nullopt)
                   /\ UNCHANGED isUpToDate
              [] new_version_info = UpToDate ->
                   /\ Did(p, <<"query">>)
                   /\ isUpToDate' = [isUpToDate EXCEPT ![p] = TRUE]
                   /\ ObtainInstaller_Return(p, nullopt)
              [] OTHER ->
                   /\ Did(p, <<"query">>)
                   /\ Goto(p, "oi_cleanup")
                   /\ UNCHANGED <<isUpToDate, installer>>
    /\ UNCHANGED <<record, files, now, state, arg, outcome, exits, stored>>

\* The artifact a readyToInstall record refers to.
Referenced(rec) ==
    IF rec.state = readyToInstall THEN {rec.downloadedInstallerFilename} ELSE {}

cleanup_updates_RemovesAll(dir, target, rec) == {dir}

\* updating::cleanup_updates(): the sets of files one call may remove.  Stale
\* artifacts are those that match neither the current target filename nor the
\* artifact the persisted record refers to; removal is best effort.
cleanup_updates(dir, target, rec) == SUBSET (dir \ ({target} \cup Referenced(rec)))

ObtainInstaller_Cleanup(p) ==
    /\ pc[p] = "oi_cleanup"
    /\ \E removed \in cleanup_updates(files, info[p].installer_filename, record) :
         files' = files \ removed
    /\ Did(p, <<"cleanup">>)
    /\ Goto(p, "oi_branch")
    /\ UNCHANGED <<record, now, locals, exits, stored>>

ObtainInstaller_Branch_Redownloads(s) ==
    IF s = readyToDownload \/ s = errorDownloading \/ s = readyToInstall THEN "download"
    ELSE "unexpected"

ObtainInstaller_Branch_DownloadsByDefault(s) ==
    IF s = readyToInstall THEN "reuse" ELSE "download"

\* The branch ObtainInstaller takes on the state it read.
ObtainInstaller_Branch(s) ==
    IF s = readyToDownload \/ s = errorDownloading THEN "download"
    ELSE IF s = readyToInstall THEN "reuse"
    ELSE "unexpected"

\* download_new_version(info).get(): the artifact lands in the pending-updates
\* directory under the release's filename, or the download fails.
ObtainInstaller_Download(p) ==
    /\ pc[p] = "oi_branch"
    /\ ObtainInstaller_Branch(state[p].state) = "download"
    /\ \E downloaded \in BOOLEAN :
         IF downloaded
           THEN /\ files' = files \cup {info[p].installer_filename}
                /\ Did(p, <<"download">>)
                /\ ObtainInstaller_Return(p,
                      Some(get_pending_updates_path(info[p].installer_filename)))
           ELSE /\ UNCHANGED files
                /\ Did(p, <<"download", "log_error">>)
                /\ ObtainInstaller_Return(p, nullopt)
    /\ UNCHANGED <<record, now, state, info, isUpToDate, arg, outcome, exits, stored>>

ObtainInstaller_Existing_Synthesizes(dir, filename) ==
    Some(get_pending_updates_path(filename))

\* The installer the record names, when fs::exists finds it.
ObtainInstaller_Existing(dir, filename) ==
    IF filename \in dir THEN Some(get_pending_updates_path(filename)) ELSE nullopt

ObtainInstaller_Reuse(p) ==
    /\ pc[p] = "oi_branch"
    /\ ObtainInstaller_Branch(state[p].state) = "reuse"
    /\ LET found == ObtainInstaller_Existing(files, state[p].downloadedInstallerFilename) IN
         /\ Did(p, IF found = nullopt THEN <<"exists", "log_error">> ELSE <<"exists">>)
         /\ ObtainInstaller_Return(p, found)
    /\ UNCHANGED <<record, files, now, state, info, isUpToDate, arg, outcome, exits, stored>>

ObtainInstaller_Unexpected(p) ==
    /\ pc[p] = "oi_branch"
    /\ ObtainInstaller_Branch(state[p].state) = "unexpected"
    /\ Did(p, <<"log_error">>)
    /\ ObtainInstaller_Return(p, nullopt)
    /\ UNCHANGED <<record, files, now, state, info, isUpToDate, arg, outcome, exits, stored>>

\* ------------------------------------------------ InstallNewVersionStage1
CopySelfToTempDir_ErrorIgnored(p) ==
    /\ pc[p] = "s1_copy"
    /\ \E copied \in BOOLEAN :
         IF copied
           THEN Did(p, <<"copy">>) /\ Goto(p, "s1_close")
           ELSE Did(p, <<"copy_failed", "log_error">>) /\ Goto(p, "s1_close")
    /\ UNCHANGED <<record, files, now, locals, exits, stored>>

\* CopySelfToTempDir(): the copy of the running binary succeeds or fails; on
\* failure InstallNewVersionStage1 returns false and WinMain stores.
CopySelfToTempDir(p) ==
    /\ pc[p] = "s1_copy"
    /\ \E copied \in BOOLEAN :
         IF copied
           THEN Did(p, <<"copy">>) /\ Goto(p, "s1_close")
           ELSE Did(p, <<"copy_failed", "log_error">>) /\ Goto(p, "s1_store")
    /\ UNCHANGED <<record, files, now, locals, exits, stored>>

\* FindWindowW on the tray-icon class; when it finds the window, SendMessageW
\* delivers WM_CLOSE and does not return before the window has handled it.
InstallNewVersionStage1_Close(p) ==
    /\ pc[p] = "s1_close"
    /\ \E pt_main_window \in BOOLEAN :
         IF pt_main_window
           THEN Did(p, <<"close">>) /\ Goto(p, "s1_sending")
           ELSE UNCHANGED trace /\ Goto(p, "s1_launch")
    /\ UNCHANGED <<record, files, now, locals, exits, stored>>

\* The running application handles WM_CLOSE; SendMessageW returns.
SendMessageW_Returns(p) ==
    /\ pc[p] = "s1_sending"
    /\ Goto(p, "s1_launch")
    /\ UNCHANGED <<record, files, now, locals, exits, trace, stored>>

\* ShellExecuteExW of the relocated copy with UPDATE_NOW_LAUNCH_STAGE2 and the
\* quoted installer path.  On success Stage 1 returns true, WinMain returns 0
\* without storing, and the new process runs Stage 2 with that path as
\* args[2]; on failure WinMain stores.
InstallNewVersionStage1_Launch(p) ==
    /\ pc[p] = "s1_launch"
    /\ \E launched \in BOOLEAN :
         IF launched
           THEN /\ Did(p, <<"launch">>)
                /\ Returns(p, 0)
                /\ arg' = [arg EXCEPT ![p] = installer[p][1]]
                /\ Goto(p, "s2_install")
           ELSE /\ Did(p, <<"launch_failed">>)
                /\ UNCHANGED <<exits, arg>>
                /\ Goto(p, "s1_store")
    /\ UNCHANGED <<record, files, now, state, info, isUpToDate, installer, outcome, stored>>

Stage1Mutator_KeepsFields(s, up, t) ==
    [s EXCEPT
        !.githubUpdateLastCheckedDate = Some(t),
        !.state = IF up THEN upToDate ELSE errorDownloading]

Stage1Mutator_AlwaysError(s, up, t) ==
    [DefaultUpdateState EXCEPT
        !.githubUpdateLastCheckedDate = Some(t),
        !.state = errorDownloading]

Stage1Mutator_AlwaysUpToDate(s, up, t) ==
    [DefaultUpdateState EXCEPT
        !.githubUpdateLastCheckedDate = Some(t),
        !.state = upToDate]

\* The mutator of WinMain's Stage-1 store.
Stage1Mutator(s, up, t) ==
    [DefaultUpdateState EXCEPT
        !.githubUpdateLastCheckedDate = Some(t),
        !.state = IF up THEN upToDate ELSE errorDownloading]

\* UpdateState::store: the mutated copy replaces the record, whole.
Store(p, rec, t) ==
    /\ record' = rec
    /\ now' = t
    /\ stored' = [stored EXCEPT ![p] = Append(stored[p], [rec |-> rec, at |-> t])]

WinMain_Stage1Store(p) ==
    /\ pc[p] = "s1_store"
    /\ \E t \in timeutil_now :
         Store(p, Stage1Mutator(UpdateState_read(record), isUpToDate[p], t), t)
    /\ Did(p, <<"store">>)
    /\ Returns(p, 0)
    /\ Goto(p, "done")
    /\ UNCHANGED <<files, locals>>

\* ------------------------------------------------ InstallNewVersionStage2
Stage2Primitive_CaseSensitive(installer_path) ==
    IF ends_with(installer_path, DotMsi) THEN "msi" ELSE "exe"

\* The primitive Stage 2 chooses for a path: the path is lowered first.
Stage2Primitive(installer_path) ==
    IF ends_with(ToLower(installer_path), DotMsi) THEN "msi" ELSE "exe"

Stage2ExitCode_IgnoresTimeout(o) ==
    IF o.handle /\ o.exited THEN o.code ELSE 0

\* The exit code Stage 2 holds after WaitForSingleObject and
\* GetExitCodeProcess: exitCode starts at 0 and neither result is looked at.
Stage2ExitCode(o) ==
    IF o.handle THEN (IF o.exited THEN o.code ELSE STILL_ACTIVE) ELSE 0

\* `success` at the end of the dispatch.
Stage2Success(o) ==
    IF o.kind = "msi" THEN o.code = ERROR_SUCCESS
    ELSE o.launched /\ Stage2ExitCode(o) = 0

InstallNewVersionStage2(p) ==
    /\ pc[p] = "s2_install"
    /\ \E o \in (IF Stage2Primitive(arg[p]) = "msi" THEN MsiOutcomes ELSE ExeOutcomes) :
         /\ outcome' = [outcome EXCEPT ![p] = o]
         /\ Did(p, IF Stage2Success(o) THEN <<"install">> ELSE <<"install", "log_error">>)
    /\ Goto(p, "s2_store")
    /\ UNCHANGED <<record, files, now, state, info, isUpToDate, installer, arg, exits, stored>>

\* The mutator of InstallNewVersionStage2's store (success).
Stage2SuccessMutator(s, t) ==
    [DefaultUpdateState EXCEPT
        !.githubUpdateLastCheckedDate = Some(t),
        !.state = upToDate]

Stage2FailureMutator_KeepsState(s, t) ==
    [s EXCEPT !.githubUpdateLastCheckedDate = Some(t)]

\* The mutator of WinMain's Stage-2 store (failure).
Stage2FailureMutator(s, t) ==
    [DefaultUpdateState EXCEPT
        !.githubUpdateLastCheckedDate = Some(t),
        !.state = errorDownloading]

InstallNewVersionStage2_Store_Missing(p) ==
    /\ pc[p] = "s2_store"
    /\ Stage2Success(outcome[p])
    /\ Returns(p, 0)
    /\ Goto(p, "done")
    /\ UNCHANGED <<record, files, now, locals, trace, stored>>

InstallNewVersionStage2_Store(p) ==
    /\ pc[p] = "s2_store"
    /\ Stage2Success(outcome[p])
    /\ \E t \in timeutil_now :
         Store(p, Stage2SuccessMutator(UpdateState_read(record), t), t)
    /\ Did(p, <<"store">>)
    /\ Returns(p, 0)
    /\ Goto(p, "done")
    /\ UNCHANGED <<files, locals>>

WinMain_Stage2Store_ReturnsFailure(p) ==
    /\ pc[p] = "s2_store"
    /\ ~Stage2Success(outcome[p])
    /\ \E t \in timeutil_now :
         Store(p, Stage2FailureMutator(UpdateState_read(record), t), t)
    /\ Did(p, <<"store">>)
    /\ Returns(p, 1)
    /\ Goto(p, "done")
    /\ UNCHANGED <<files, locals>>

WinMain_Stage2Store(p) ==
    /\ pc[p] = "s2_store"
    /\ ~Stage2Success(outcome[p])
    /\ \E t \in timeutil_now :
         Store(p, Stage2FailureMutator(UpdateState_read(record), t), t)
    /\ Did(p, <<"store">>)
    /\ Returns(p, 0)
    /\ Goto(p, "done")
    /\ UNCHANGED <<files, locals>>

\* ------------------------------------------------------------ the program
Next ==
    \E p \in Procs :
         \/ WinMain_NoArguments(p)
         \/ WinMain_InvalidAction(p)
         \/ WinMain_Stage1(p)
         \/ WinMain_Stage2(p)
         \/ WinMain_Stage2NoPath(p)
         \/ ObtainInstaller_Query(p)
         \/ ObtainInstaller_Cleanup(p)
         \/ ObtainInstaller_Download(p)
         \/ ObtainInstaller_Reuse(p)
         \/ ObtainInstaller_Unexpected(p)
         \/ CopySelfToTempDir(p)
         \/ InstallNewVersionStage1_Close(p)
         \/ SendMessageW_Returns(p)
         \/ InstallNewVersionStage1_Launch(p)
         \/ WinMain_Stage1Store(p)
         \/ InstallNewVersionStage2(p)
         \/ InstallNewVersionStage2_Store(p)
         \/ WinMain_Stage2Store(p)

Spec == Init /\ [][Next]_vars

\* A Stage-2 process that can take its next step takes it: the installation
\* primitives return (the wait on the launched process is bounded) and the
\* store that follows is a plain sequence of statements.
Stage2Step(p) ==
    \/ InstallNewVersionStage2(p)
    \/ InstallNewVersionStage2_Store(p)
    \/ WinMain_Stage2Store(p)

SpecFair == Spec /\ \A p \in Procs : WF_vars(Stage2Step(p))

\* ==================================================================== claims
Has(p, e) == \E i \in 1..Len(trace[p]) : trace[p][i] = e
HasAny(p, events) == \E i \in 1..Len(trace[p]) : trace[p][i] \in events

\* The invocation ran Stage 1 / its Stage 1 launched Stage 2 / it ran Stage 2.
RanStage1(p) == Has(p, "query")
LaunchedStage2(p) == Has(p, "launch")
RanStage2(p) == Has(p, "install")
Finished(p) == pc[p] = "done"

\* A record as a store of the updater leaves it: everything reset, the given
\* state, the date set to the clock at the store.
Fresh(entry, s) ==
    entry.rec = [state |-> s,
                 githubUpdateLastCheckedDate |-> Some(entry.at),
                 downloadedInstallerFilename |-> <<>>]

\* C1: once a Stage-1 run has finished (and the Stage 2 it launched, if any,
\* has finished too), the persisted state is upToDate or errorDownloading,
\* whatever the prior record and whatever the outcomes were.
C1_TerminalState ==
    \A p \in Procs :
        Finished(p) /\ RanStage1(p) => record.state \in {upToDate, errorDownloading}

\* A Stage 1 that launched Stage 2, both finished, left errorDownloading.
C1_Witness ==
    \E p \in Procs :
        /\ Finished(p) /\ RanStage1(p) /\ LaunchedStage2(p) /\ RanStage2(p)
        /\ state[p].state = readyToInstall
        /\ record.state = errorDownloading

\* C2: the persisted record names an installer exactly when it is
\* readyToInstall, and every store of Stage 1 or Stage 2 wrote a record that
\* is reset, has no installer filename and is upToDate or errorDownloading.
C2_FilenameIffReadyToInstall ==
    /\ (record.downloadedInstallerFilename # <<>>) <=> (record.state = readyToInstall)
    /\ \A p \in Procs : \A i \in 1..Len(stored[p]) :
          /\ stored[p][i].rec.downloadedInstallerFilename = <<>>
          /\ stored[p][i].rec.state \in {upToDate, errorDownloading}
          /\ stored[p][i].rec =
                [DefaultUpdateState EXCEPT
                    !.state = stored[p][i].rec.state,
                    !.githubUpdateLastCheckedDate = stored[p][i].rec.githubUpdateLastCheckedDate]

\* A store over a readyToInstall record that named an installer: the only
\* invocation so far read that record and has stored.
C2_Witness ==
    \E p \in Procs :
        /\ Finished(p) /\ Len(stored[p]) = 1
        /\ state[p].state = readyToInstall
        /\ state[p].downloadedInstallerFilename \in Names
        /\ \A q \in Procs \ {p} : pc[q] = "idle"
        /\ record.downloadedInstallerFilename = <<>>

\* C3: one store per update attempt.  A finished Stage 1 that launched no
\* Stage 2 has stored exactly once; a Stage 1 that launched Stage 2 stored
\* nothing (nothing is stored while its Stage 2 has yet to store); every
\* finished Stage 2 has stored exactly once, after success and after failure.
C3_OneStorePerAttempt ==
    \A p \in Procs :
        /\ Finished(p) /\ RanStage1(p) /\ ~LaunchedStage2(p) => Len(stored[p]) = 1
        /\ LaunchedStage2(p) /\ ~Finished(p) => Len(stored[p]) = 0
        /\ Finished(p) /\ RanStage2(p) => Len(stored[p]) = 1
        /\ Len(stored[p]) = Count(trace[p], "store")

\* A Stage 2 launched by Stage 1 installed with success and stored once.
C3_Witness ==
    \E p \in Procs :
        /\ Finished(p) /\ LaunchedStage2(p) /\ RanStage2(p)
        /\ Stage2Success(outcome[p])
        /\ Len(stored[p]) = 1

Stage1Effects == {"cleanup", "download", "copy", "copy_failed", "close", "launch",
                  "launch_failed"}

\* C4: when the resolver answers UpToDate, Stage 1 does no cleanup, download,
\* relocation, termination request or launch, and stores upToDate with the
\* date set to the clock at the store.
C4_UpToDate ==
    \A p \in Procs :
        RanStage1(p) /\ info[p] = UpToDate =>
            /\ ~HasAny(p, Stage1Effects \cup {"install"})
            /\ pc[p] \in {"s1_store", "done"}
            /\ Finished(p) => Len(stored[p]) = 1 /\ Fresh(stored[p][1], upToDate)

\* First run (no prior record), resolver says UpToDate, Stage 1 has finished.
C4_Witness ==
    \E p \in Procs :
        /\ Finished(p) /\ info[p] = UpToDate /\ state[p] = DefaultUpdateState
        /\ \A q \in Procs \ {p} : pc[q] = "idle"
        /\ record.state = upToDate

\* ObtainInstaller has returned to WinMain.
Returned(p) == RanStage1(p) /\ pc[p] \notin {"idle", "oi_query", "oi_cleanup", "oi_branch"}

\* C5: when ObtainInstaller returns no installer and the resolver did not
\* answer UpToDate, Stage 1 does no relocation, termination request or launch
\* and stores errorDownloading; a Stage-1 store is upToDate only when the
\* resolver answered UpToDate.
C5_NotAvailable ==
    \A p \in Procs :
        /\ Returned(p) /\ installer[p] = nullopt /\ info[p] # UpToDate =>
              /\ ~HasAny(p, {"copy", "copy_failed", "close", "launch", "launch_failed",
                             "install"})
              /\ pc[p] \in {"s1_store", "done"}
              /\ Finished(p) => Len(stored[p]) = 1 /\ Fresh(stored[p][1], errorDownloading)
        /\ RanStage1(p) /\ ~LaunchedStage2(p) /\ Len(stored[p]) > 0
              /\ stored[p][1].rec.state = upToDate
              => info[p] = UpToDate

\* Scenario E: prior state readyToDownload, the query failed, Stage 1 finished.
C5_Witness ==
    \E p \in Procs :
        /\ Finished(p) /\ info[p] = QueryFailed
        /\ state[p].state = readyToDownload
        /\ record.state = errorDownloading

\* A step of p inside ObtainInstaller (its read included).
AcquirerStep(p) ==
    /\ pc'[p] # pc[p]
    /\ \/ pc[p] \in {"oi_query", "oi_cleanup", "oi_branch"}
       \/ pc[p] = "idle" /\ pc'[p] = "oi_query"

\* C6: no step of ObtainInstaller changes the persisted record, on any path
\* (the failed query included); only the stores of WinMain and of
\* InstallNewVersionStage2 write it.
C6_AcquirerLeavesRecord ==
    [][\A p \in Procs : AcquirerStep(p) => record' = record]_vars

\* ObtainInstaller has returned after a failed query and the record is still
\* the one it read.
C6_Witness ==
    \E p \in Procs :
        /\ pc[p] = "s1_store" /\ info[p] = QueryFailed
        /\ state[p].state = readyToDownload
        /\ record = state[p]

IsNew(i) == i.tag = "NewVersionAvailable"

\* The step in which ObtainInstaller looks for the recorded installer and
\* finds it absent from the pending-updates directory.
MissingArtifactStep(p) ==
    /\ pc[p] = "oi_branch" /\ pc'[p] # pc[p]
    /\ state[p].state = readyToInstall /\ IsNew(info[p])
    /\ state[p].downloadedInstallerFilename \notin files

\* C7: with state readyToInstall, a new version available and the recorded
\* installer absent, ObtainInstaller returns no installer, creates no file and
\* downloads nothing, in that step or anywhere in the call.
C7_MissingArtifact ==
    /\ [][\A p \in Procs : MissingArtifactStep(p) =>
              /\ installer'[p] = nullopt
              /\ pc'[p] = "s1_store"
              /\ files' = files
              /\ ~Has(p, "download")']_vars
    /\ [](\A p \in Procs : RanStage1(p) /\ state[p].state = readyToInstall =>
              ~Has(p, "download"))

\* ObtainInstaller returned without an installer from the readyToInstall
\* branch: the recorded file was missing.
C7_Witness ==
    \E p \in Procs :
        /\ pc[p] = "s1_store" /\ state[p].state = readyToInstall /\ IsNew(info[p])
        /\ installer[p] = nullopt
        /\ state[p].downloadedInstallerFilename \notin files

\* Two calls of ObtainInstaller that both found the persisted state
\* readyToInstall with the recorded artifact in the directory: both have
\* returned, nothing has been stored in between.
TwoReuseCalls(p, q) ==
    /\ p # q /\ Returned(p) /\ Returned(q)
    /\ IsNew(info[p]) /\ IsNew(info[q])
    /\ state[p].state = readyToInstall /\ state[q] = state[p] /\ record = state[p]
    /\ state[p].downloadedInstallerFilename \in files

CleanupStep(p) == pc[p] = "oi_cleanup" /\ pc'[p] = "oi_branch"

IsMsiPath(path) ==
    /\ Len(path) >= 4
    /\ path[Len(path) - 3] = "."
    /\ path[Len(path) - 2] \in {"m", "M"}
    /\ path[Len(path) - 1] \in {"s", "S"}
    /\ path[Len(path)] \in {"i", "I"}

\* The install succeeded: the package primitive returned its success code, or
\* the launched executable exited with code 0.
InstallSucceeded(path, o) ==
    IF IsMsiPath(path) THEN o.kind = "msi" /\ o.code = ERROR_SUCCESS
    ELSE o.kind = "exe" /\ o.launched /\ o.handle /\ o.exited /\ o.code = 0

\* The install failed: the package primitive returned another code; or the
\* executable could not be launched, exited with another code, or did not
\* exit within the wait.
InstallFailed(path, o) ==
    IF IsMsiPath(path) THEN o.kind = "msi" /\ o.code # ERROR_SUCCESS
    ELSE o.kind = "exe" /\ (~o.launched \/ (o.handle /\ (~o.exited \/ o.code # 0)))

\* C10: Stage 2 uses the package primitive exactly for paths that end in
\* ".msi" in any letter case; after a successful install it stores upToDate,
\* after a failed one errorDownloading, each with the date set to the clock.
C10_Stage2Outcome ==
    \A p \in Procs :
        RanStage2(p) =>
            /\ outcome[p].kind = (IF IsMsiPath(arg[p]) THEN "msi" ELSE "exe")
            /\ Finished(p) =>
                  /\ Len(stored[p]) = 1
                  /\ InstallSucceeded(arg[p], outcome[p]) => Fresh(stored[p][1], upToDate)
                  /\ InstallFailed(arg[p], outcome[p]) => Fresh(stored[p][1], errorDownloading)

\* Scenario C with an upper-case suffix: the package primitive succeeded and
\* the record is upToDate.
C10_Witness ==
    \E p \in Procs :
        /\ Finished(p) /\ RanStage2(p)
        /\ arg[p] = get_pending_updates_path(SetupMSI)
        /\ outcome[p] = [kind |-> "msi", code |-> ERROR_SUCCESS]
        /\ record.state = upToDate

\* The launched installer did not exit within the wait.
TimedOut(o) == o.kind = "exe" /\ o.launched /\ o.handle /\ ~o.exited

\* C11: when the executable Stage 2 launched has not exited within the wait,
\* Stage 2 treats the attempt as failed and stores errorDownloading, never
\* upToDate; and a Stage 2 given an executable always comes to its end.
C11_HungInstaller ==
    /\ [](\A p \in Procs :
            RanStage2(p) /\ TimedOut(outcome[p]) =>
                /\ ~Stage2Success(outcome[p])
                /\ Has(p, "log_error")
                /\ \A i \in 1..Len(stored[p]) : Fresh(stored[p][i], errorDownloading)
                /\ Finished(p) => Len(stored[p]) = 1)
    /\ \A p \in Procs :
          (pc[p] = "s2_install" /\ ~IsMsiPath(arg[p])) ~> Finished(p)

\* Scenario D: Stage 2 ran pending/b.exe, the wait timed out, Stage 2 has
\* finished and the record is errorDownloading.
C11_Witness ==
    \E p \in Procs :
        /\ Finished(p) /\ RanStage2(p)
        /\ arg[p] = get_pending_updates_path(SetupExe)
        /\ TimedOut(outcome[p])
        /\ record.state = errorDownloading

\* The command line of the invocation was malformed: no mode argument, an
\* unrecognised mode, or Stage 2 without the installer path.
Malformed(p) == HasAny(p, {"no_arguments", "invalid_action", "no_path"})

\* The process of the invocation has ended, by a return or by a fault.
Ended(p) == pc[p] \in {"done", "crashed"}

NonZeroExit(p) ==
    /\ Len(exits[p]) = 1
    /\ exits[p][1] # 0

\* C12: an invocation with a malformed command line runs no install step and
\* stores nothing, and it ends with a non-zero exit code and a logged error.
C12_InvalidArguments ==
    \A p \in Procs :
        Malformed(p) =>
            /\ ~Has(p, "install")
            /\ Len(stored[p]) = 0
            /\ Ended(p) =>
                  /\ NonZeroExit(p)
                  /\ HasAny(p, {"log_error", "log_error_before_init"})

\* Something failed inside the invocation.
FailedInside(p) == HasAny(p, {"log_error", "launch_failed"})

\* C13: a Stage-1 or Stage-2 invocation with a well-formed command line
\* returns 0 from each of its processes, whatever failed inside it, and the
\* failure is in the record it stored; an exit code other than 0 comes only
\* from a malformed command line.
C13_ExitCodeZero ==
    \A p \in Procs :
        /\ \A i \in 1..Len(exits[p]) : exits[p][i] # 0 => Malformed(p)
        /\ Finished(p) /\ ~Malformed(p) =>
              /\ Len(exits[p]) = (IF LaunchedStage2(p) THEN 2 ELSE 1)
              /\ FailedInside(p) =>
                    Len(stored[p]) = 1 /\ Fresh(stored[p][1], errorDownloading)
        /\ LaunchedStage2(p) => Len(exits[p]) >= 1

\* A Stage 1 launched a Stage 2 whose install failed: both processes returned 0.
C13_Witness ==
    \E p \in Procs :
        /\ Finished(p) /\ LaunchedStage2(p) /\ FailedInside(p)
        /\ exits[p] = <<0, 0>>
        /\ record.state = errorDownloading

\* C14: when the copy of the updater binary fails, Stage 1 sends no
\* termination request, launches nothing and stores errorDownloading; a
\* termination request is sent at most once and only after a successful copy.
C14_CopyFailure ==
    \A p \in Procs :
        /\ Has(p, "copy_failed") =>
              /\ installer[p] # nullopt
              /\ ~HasAny(p, {"copy", "close", "launch", "launch_failed", "install"})
              /\ pc[p] \in {"s1_store", "done"}
              /\ Finished(p) => Len(stored[p]) = 1 /\ Fresh(stored[p][1], errorDownloading)
        /\ Count(trace[p], "close") <= 1
        /\ \A i \in 1..Len(trace[p]) :
              trace[p][i] = "close" => \E j \in 1..(i - 1) : trace[p][j] = "copy"

\* An installer was downloaded, the copy failed, Stage 1 has finished.
C14_Witness ==
    \E p \in Procs :
        /\ Finished(p) /\ Has(p, "copy_failed") /\ Has(p, "download")
        /\ record.state = errorDownloading

\* C15: when the launch of the relocated copy fails, no Stage 2 runs for the
\* attempt and Stage 1 stores errorDownloading, reset and dated by the clock.
C15_LaunchFailure ==
    \A p \in Procs :
        Has(p, "launch_failed") =>
            /\ Has(p, "copy")
            /\ ~HasAny(p, {"launch", "install"})
            /\ pc[p] \in {"s1_store", "done"}
            /\ arg[p] = <<>>
            /\ Finished(p) => Len(stored[p]) = 1 /\ Fresh(stored[p][1], errorDownloading)

\* A reused installer, a failed launch, Stage 1 finished: the record no longer
\* names the installer.
C15_Witness ==
    \E p \in Procs :
        /\ Finished(p) /\ Has(p, "launch_failed")
        /\ state[p].state = readyToInstall
        /\ record.state = errorDownloading
        /\ record.downloadedInstallerFilename = <<>>

\* The termination request has been sent and Stage 1 has not yet reached the
\* outcome of its launch.
RequestPending(p) == Has(p, "close") /\ ~HasAny(p, {"launch", "launch_failed"})

\* C16: the termination request is fire-and-forget: once it is sent, Stage 1
\* can go on to launch Stage 2 by a step of its own, without the running
\* application having handled the request.
C16_FireAndForget ==
    \A p \in Procs :
        RequestPending(p) => ENABLED InstallNewVersionStage1_Launch(p)

\* The steps of scenario B, with and without a running application to close.
StepsB == <<"cleanup", "download", "copy", "close", "launch">>
StepsBNoWindow == <<"cleanup", "download", "copy", "launch">>
IsStepB(e) == e \in {"cleanup", "download", "copy", "close", "launch"}
IsPrefix(s, t) == Len(s) <= Len(t) /\ s = SubSeq(t, 1, Len(s))

\* Stage 1 took the download branch on a new version and the download succeeded.
DownloadSucceeded(p) ==
    /\ state[p].state \in {readyToDownload, errorDownloading}
    /\ IsNew(info[p])
    /\ Has(p, "download")
    /\ installer[p] # nullopt

\* C17: from readyToDownload or errorDownloading, with a new version and a
\* successful download, Stage 1 cleans up, downloads, copies the updater,
\* requests termination of the running application and launches Stage 2, in
\* this order; the path Stage 2 receives is the path the download returned.
C17_ScenarioB ==
    \A p \in Procs :
        DownloadSucceeded(p) =>
            /\ \/ IsPrefix(SelectSeq(trace[p], IsStepB), StepsB)
               \/ IsPrefix(SelectSeq(trace[p], IsStepB), StepsBNoWindow)
            /\ installer[p] = Some(get_pending_updates_path(info[p].installer_filename))
            /\ LaunchedStage2(p) =>
                  /\ Has(p, "copy")
                  /\ arg[p] = installer[p][1]

\* All five steps were taken and Stage 2 holds the downloaded path.
C17_Witness ==
    \E p \in Procs :
        /\ DownloadSucceeded(p)
        /\ SelectSeq(trace[p], IsStepB) = StepsB
        /\ arg[p] = get_pending_updates_path(info[p].installer_filename)
        /\ pc[p] = "s2_install"

\* The states from which ObtainInstaller has something to do on a new version.
ExpectedStates == {readyToDownload, errorDownloading, readyToInstall}

\* C18: with a new version available and a state that is none of
\* readyToDownload, errorDownloading, readyToInstall (upToDate included),
\* ObtainInstaller logs an error and returns no installer without downloading,
\* and Stage 1 stores errorDownloading; only runs that read readyToDownload or
\* errorDownloading attempt a download.
C18_UnexpectedState ==
    \A p \in Procs :
        /\ Returned(p) /\ IsNew(info[p]) /\ state[p].state \notin ExpectedStates =>
              /\ installer[p] = nullopt
              /\ Has(p, "cleanup") /\ Has(p, "log_error")
              /\ ~HasAny(p, {"download", "exists", "copy", "launch", "install"})
              /\ Finished(p) => Len(stored[p]) = 1 /\ Fresh(stored[p][1], errorDownloading)
        /\ Has(p, "download") =>
              /\ state[p].state \in {readyToDownload, errorDownloading}
              /\ IsNew(info[p])

\* The record left upToDate by an earlier run, a new version now: the run
\* finished without a download and the record says errorDownloading.
C18_Witness ==
    \E p \in Procs :
        /\ Finished(p) /\ IsNew(info[p]) /\ state[p].state = upToDate
        /\ ~Has(p, "download")
        /\ record.state = errorDownloading

\* Run q read the record that run p stored.
ReadsStoreOf(q, p) ==
    /\ q # p
    /\ RanStage1(q)
    /\ Len(stored[p]) = 1
    /\ state[q] = stored[p][1].rec

\* C19: an attempt that failed, in Stage 1 or in Stage 2, stores
\* errorDownloading with no installer filename, and a Stage-1 run that reads
\* this record and finds a new version downloads afresh: it does not look for
\* a recorded installer and does not reject the state.
C19_RetryAfterFailure ==
    \A p \in Procs :
        Finished(p) /\ FailedInside(p) /\ ~Malformed(p) =>
            /\ Len(stored[p]) = 1
            /\ stored[p][1].rec.state = errorDownloading
            /\ stored[p][1].rec.downloadedInstallerFilename = <<>>
            /\ \A q \in Procs :
                  ReadsStoreOf(q, p) /\ IsNew(info[q]) /\ Returned(q) =>
                      /\ Has(q, "cleanup")
                      /\ Has(q, "download")
                      /\ ~Has(q, "exists")
                      /\ installer[q] = nullopt => Has(q, "log_error")

\* A Stage 2 failed; the next run read its record and downloaded again.
C19_Witness ==
    \E p, q \in Procs :
        /\ Finished(p) /\ RanStage2(p) /\ FailedInside(p) /\ ~Malformed(p)
        /\ ReadsStoreOf(q, p) /\ IsNew(info[q])
        /\ Has(q, "download") /\ installer[q] # nullopt

\* The path names an artifact that is in the pending-updates directory.
InPendingUpdates(path) == \E f \in files : path = get_pending_updates_path(f)

\* C20: the artifact Stage 1 handed to Stage 2 is still in the pending-updates
\* directory when Stage 2 is about to invoke the install primitive, whatever
\* another updater invocation running at the same time cleans up.
C20_ArtifactSurvives ==
    \A p \in Procs :
        LaunchedStage2(p) /\ pc[p] = "s2_install" => InPendingUpdates(arg[p])

====
